---- MODULE Spec2Model ----
(***************************************************************************)
(* Model of res/extract_textures.py: the texture-atlas builder.            *)
(*                                                                         *)
(* The script is one sequential pass over TEXTURE_MAP.  Each statement of  *)
(* the __main__ block is one action; pc is the position of the script.     *)
(* The file system is external: the answer to os.path.exists and the       *)
(* outcome of Image.open / Image.save are decided by the environment the   *)
(* first time the script asks, and stay fixed from then on (the inputs do  *)
(* not change while the builder runs, nor between two runs).               *)
(*                                                                         *)
(* Images are pixel maps.  An image is a record [mode, w, h, fill, px]     *)
(* where px maps the linear pixel number y * w + x of every pixel that was *)
(* written to its colour and every other pixel has the colour fill.        *)
(***************************************************************************)
EXTENDS Integers, Sequences, FiniteSets, TLC

----------------------------------------------------------------------------
(* Configuration, lines 7-18 *)

TEXTURE_SIZE == 16

ATLAS_SIZE == 256

\* Fault: two names share a slot ('ice' given the index of 'snow').
TEXTURE_MAP_Duplicate ==
    << <<"air", 0>>, <<"greystone", 1>>, <<"dirt", 2>>, <<"grass_top", 3>>,
       <<"dirt_grass", 4>>, <<"sand", 5>>, <<"water", 6>>, <<"trunk_top", 7>>,
       <<"trunk_side", 8>>, <<"leaves", 9>>, <<"glass", 10>>, <<"stone", 11>>,
       <<"wood", 12>>, <<"rock", 13>>, <<"gravel_stone", 14>>,
       <<"brick_red", 15>>, <<"snow", 16>>, <<"ice", 16>> >>

\* The dict literal, in insertion order (the order .items() iterates in).
TEXTURE_MAP ==
    << <<"air", 0>>, <<"greystone", 1>>, <<"dirt", 2>>, <<"grass_top", 3>>,
       <<"dirt_grass", 4>>, <<"sand", 5>>, <<"water", 6>>, <<"trunk_top", 7>>,
       <<"trunk_side", 8>>, <<"leaves", 9>>, <<"glass", 10>>, <<"stone", 11>>,
       <<"wood", 12>>, <<"rock", 13>>, <<"gravel_stone", 14>>,
       <<"brick_red", 15>>, <<"snow", 16>>, <<"ice", 17>> >>

\* Resolution of the tiles of the pack ("Resize from 128x128 to 16x16").
SOURCE_SIZE == 128

\* The colour (0, 0, 0, 0) the canvas is created with.
Transparent == 0

\* Name of the file atlas.save writes.
OUTPUT_NAME == "kenney_voxel_atlas.png"

----------------------------------------------------------------------------
(* Bounds of the model *)

\* At most this many source files are absent in one run.
MaxMissing == 1

----------------------------------------------------------------------------
(* Helpers over the table *)

Names == {TEXTURE_MAP[k][1] : k \in DOMAIN TEXTURE_MAP}

\* The file <name>.png of TILES_DIR, identified by its position in the pack.
FileId(n) == CHOOSE k \in DOMAIN TEXTURE_MAP : TEXTURE_MAP[k][1] = n

----------------------------------------------------------------------------
(* The image library (PIL), as far as the script uses it *)

\* Image.new(mode, (w, h), colour): every pixel has the colour.
NewImage(mode, w, h, colour) ==
    [mode |-> mode, w |-> w, h |-> h, fill |-> colour, px |-> <<>>]

\* img.getpixel((x, y))
GetPixel(img, x, y) ==
    IF (y * img.w + x) \in DOMAIN img.px THEN img.px[y * img.w + x] ELSE img.fill

\* Image.open(path) of a decodable file: the picture stored in the file.
OpenImage(n) ==
    [mode |-> "file", w |-> SOURCE_SIZE, h |-> SOURCE_SIZE, id |-> FileId(n)]

\* img.convert(mode)
Convert(img, mode) == [img EXCEPT !.mode = mode]

\* The colour the resampling filter computes for pixel (x, y) of the picture
\* id scaled to w columns: a value that names the picture and the pixel.
Sample(id, w, x, y) == 1 + (id * w + y) * w + x

\* img.resize((w, h), Image.LANCZOS): a w x h image, every pixel resampled.
Resize(img, w, h) ==
    [mode |-> img.mode, w |-> w, h |-> h, fill |-> Transparent,
     px |-> [q \in 0 .. (w * h - 1) |-> Sample(img.id, w, q % w, q \div w)]]

\* The pixels of dst that a w x h box at (x0, y0) covers (paste clips the box
\* to the destination).
Region(dst, x0, y0, w, h) ==
    {y * dst.w + x : x \in (x0 .. (x0 + w - 1)) \cap (0 .. (dst.w - 1)),
                     y \in (y0 .. (y0 + h - 1)) \cap (0 .. (dst.h - 1))}

\* dst.paste(src, (x0, y0)) without a mask: the source pixels replace the
\* destination pixels of the box, alpha included.
Paste(dst, src, x0, y0) ==
    [dst EXCEPT !.px =
        [p \in (DOMAIN dst.px) \cup Region(dst, x0, y0, src.w, src.h) |->
            IF /\ x0 <= p % dst.w /\ p % dst.w < x0 + src.w
               /\ y0 <= p \div dst.w /\ p \div dst.w < y0 + src.h
            THEN GetPixel(src, (p % dst.w) - x0, (p \div dst.w) - y0)
            ELSE dst.px[p]]]

NoImage == [mode |-> "none"]

NoFile == [format |-> "none"]

----------------------------------------------------------------------------
(* State *)

VARIABLES
    disk,      \* TILES_DIR: name -> "unknown" | "absent" | "present" | "image" | "garbage"
    cwd,       \* the working directory: "unknown" | "writable" | "readonly"
    outfile,   \* content of OUTPUT_NAME in the working directory
    items,     \* the sequence TEXTURE_MAP.items() iterates over
    pos,       \* number of entries the for loop has fetched
    pc,        \* position of the script
    name, index, texture, row, col,   \* the loop's local variables
    atlas,     \* the canvas
    out,       \* lines printed so far
    looked,    \* names asked of os.path.exists, in order
    opened,    \* names given to Image.open, in order
    pasted,    \* the atlas.paste calls, in order
    saves,     \* number of times atlas.save wrote the file
    run,       \* number of the current run
    hist       \* what each earlier run left: its output, its file, its end

env  == <<disk, cwd>>
loop == <<name, index, texture, row, col>>
logs == <<looked, opened, pasted>>
vars == <<disk, cwd, outfile, items, pos, pc, name, index, texture, row, col,
          atlas, out, looked, opened, pasted, saves, run, hist>>

Absent == {n \in DOMAIN disk : disk[n] = "absent"}

\* Fault: the division rounds up.
TexturesPerRowRoundedUp == (ATLAS_SIZE + TEXTURE_SIZE) \div TEXTURE_SIZE

\* line 22
textures_per_row == ATLAS_SIZE \div TEXTURE_SIZE

\* Fault: row and column are exchanged.
CellOfSwapped(i) == <<i % textures_per_row, i \div textures_per_row>>

\* line 34: row, col = index // textures_per_row, index % textures_per_row
CellOf(i) == <<i \div textures_per_row, i % textures_per_row>>

\* Fault: the cell is not scaled to pixels.
OffsetUnscaled(r, c) == <<c, r>>

\* line 35: the paste position (col * TEXTURE_SIZE, row * TEXTURE_SIZE)
Offset(r, c) == <<c * TEXTURE_SIZE, r * TEXTURE_SIZE>>

\* Fault: the reserved name is not recognised.
IsAirNever(n) == FALSE

\* line 25: the reserved name
IsAir(n) == n = "air"

\* Memory of a freshly started script, lines 20-22.
Start ==
    /\ pos = 0 /\ pc = "for"
    /\ name = "" /\ index = -1 /\ texture = NoImage /\ row = -1 /\ col = -1
    /\ atlas = NewImage("RGBA", ATLAS_SIZE, ATLAS_SIZE, Transparent)
    /\ out = <<>> /\ looked = <<>> /\ opened = <<>> /\ pasted = <<>>
    /\ saves = 0

\* The file system before anything was asked of it.  air.png is there or not.
FreshDisk == {[n \in Names |-> IF n = "air" THEN a ELSE "unknown"] :
                a \in {"absent", "present"}}

Init ==
    /\ disk \in FreshDisk
    /\ cwd = "unknown"
    /\ outfile = NoFile
    /\ items = TEXTURE_MAP
    /\ run = 1 /\ hist = <<>>
    /\ Start

----------------------------------------------------------------------------
(* The environment's answers *)

\* os.path.exists(path) answers ans.  The first answer about a file is the
\* environment's choice; it is the same ever after.
Exists(n, ans) ==
    IF disk[n] = "unknown"
    THEN /\ ans \in BOOLEAN
         /\ ~ans => Cardinality(Absent) < MaxMissing
         /\ disk' = [disk EXCEPT ![n] = IF ans THEN "present" ELSE "absent"]
    ELSE /\ ans = (disk[n] # "absent")
         /\ disk' = disk

\* Image.open(path) of an existing file decodes it (ok) or raises.
Decode(n, ok) ==
    IF disk[n] = "present"
    THEN /\ ok \in BOOLEAN
         /\ disk' = [disk EXCEPT ![n] = IF ok THEN "image" ELSE "garbage"]
    ELSE /\ ok = (disk[n] = "image")
         /\ disk' = disk

\* Opening OUTPUT_NAME for writing succeeds (ok) or raises.
Writable(ok) ==
    IF cwd = "unknown"
    THEN /\ ok \in BOOLEAN
         /\ cwd' = IF ok THEN "writable" ELSE "readonly"
    ELSE /\ ok = (cwd = "writable")
         /\ cwd' = cwd

----------------------------------------------------------------------------
(* The statements of the script *)

\* line 24, the table is exhausted: leave the loop.
ForEnd ==
    /\ pc = "for" /\ pos = Len(items)
    /\ pc' = "save"
    /\ UNCHANGED <<env, outfile, items, pos, loop, atlas, out, logs, saves, run, hist>>

\* lines 24-26: fetch the next entry; it is the reserved name: continue.
ForAir ==
    /\ pc = "for" /\ pos < Len(items)
    /\ IsAir(items[pos + 1][1])
    /\ pos' = pos + 1
    /\ name' = items[pos + 1][1] /\ index' = items[pos + 1][2]
    /\ pc' = "for"
    /\ UNCHANGED <<env, outfile, items, texture, row, col, atlas, out, logs, saves, run, hist>>

\* Fault: the continue of line 31 is missing; the script falls through to line 33.
ForMissingFallThrough ==
    /\ pc = "for" /\ pos < Len(items)
    /\ ~IsAir(items[pos + 1][1])
    /\ pos' = pos + 1
    /\ name' = items[pos + 1][1] /\ index' = items[pos + 1][2]
    /\ Exists(name', FALSE)
    /\ looked' = Append(looked, name')
    /\ out' = Append(out, <<"Missing", name'>>)
    /\ pc' = "open"
    /\ UNCHANGED <<cwd, outfile, items, texture, row, col, atlas, opened, pasted, saves, run, hist>>

\* Fault: the print of line 30 is missing.
ForMissingSilent ==
    /\ pc = "for" /\ pos < Len(items)
    /\ ~IsAir(items[pos + 1][1])
    /\ pos' = pos + 1
    /\ name' = items[pos + 1][1] /\ index' = items[pos + 1][2]
    /\ Exists(name', FALSE)
    /\ looked' = Append(looked, name')
    /\ pc' = "for"
    /\ UNCHANGED <<cwd, outfile, items, texture, row, col, atlas, out, opened, pasted, saves, run, hist>>

\* lines 24-31: fetch the next entry; its file does not exist: report, continue.
ForMissing ==
    /\ pc = "for" /\ pos < Len(items)
    /\ ~IsAir(items[pos + 1][1])
    /\ pos' = pos + 1
    /\ name' = items[pos + 1][1] /\ index' = items[pos + 1][2]
    /\ Exists(name', FALSE)
    /\ looked' = Append(looked, name')
    /\ out' = Append(out, <<"Missing", name'>>)
    /\ pc' = "for"
    /\ UNCHANGED <<cwd, outfile, items, texture, row, col, atlas, opened, pasted, saves, run, hist>>

\* lines 24-29: fetch the next entry; its file exists: go on to line 33.
ForFound ==
    /\ pc = "for" /\ pos < Len(items)
    /\ ~IsAir(items[pos + 1][1])
    /\ pos' = pos + 1
    /\ name' = items[pos + 1][1] /\ index' = items[pos + 1][2]
    /\ Exists(name', TRUE)
    /\ looked' = Append(looked, name')
    /\ pc' = "open"
    /\ UNCHANGED <<cwd, outfile, items, texture, row, col, atlas, out, opened, pasted, saves, run, hist>>

\* line 33: the file decodes; texture is the converted, resized tile.
OpenOk ==
    /\ pc = "open"
    /\ Decode(name, TRUE)
    /\ opened' = Append(opened, name)
    /\ texture' = Resize(Convert(OpenImage(name), "RGBA"), TEXTURE_SIZE, TEXTURE_SIZE)
    /\ pc' = "paste"
    /\ UNCHANGED <<cwd, outfile, items, pos, name, index, row, col, atlas, out,
                   looked, pasted, saves, run, hist>>

\* Fault: the exception of line 33 is caught and reported as a missing file.
OpenFailAsMissing ==
    /\ pc = "open"
    /\ Decode(name, FALSE)
    /\ opened' = Append(opened, name)
    /\ out' = Append(out, <<"Missing", name>>)
    /\ pc' = "for"
    /\ UNCHANGED <<cwd, outfile, items, pos, loop, atlas, looked, pasted,
                   saves, run, hist>>

\* line 33: the file does not decode; the exception ends the script.
OpenFail ==
    /\ pc = "open"
    /\ Decode(name, FALSE)
    /\ opened' = Append(opened, name)
    /\ pc' = "crashed"
    /\ UNCHANGED <<cwd, outfile, items, pos, loop, atlas, out, looked, pasted,
                   saves, run, hist>>

\* lines 34-35: compute the cell and paste the tile.
PasteTile ==
    /\ pc = "paste"
    /\ row' = CellOf(index)[1] /\ col' = CellOf(index)[2]
    /\ atlas' = Paste(atlas, texture, Offset(row', col')[1], Offset(row', col')[2])
    /\ pasted' = Append(pasted, [name |-> name, x |-> Offset(row', col')[1],
                                 y |-> Offset(row', col')[2],
                                 w |-> texture.w, h |-> texture.h])
    /\ pc' = "print"
    /\ UNCHANGED <<env, outfile, items, pos, name, index, texture, out, looked,
                   opened, saves, run, hist>>

\* Fault: line 38 is indented into the loop; the file is written per tile.
PrintAddedAndSave ==
    /\ pc = "print"
    /\ out' = Append(out, <<"Added", name, index>>)
    /\ outfile' = [format |-> "PNG", w |-> atlas.w, h |-> atlas.h,
                   mode |-> atlas.mode, fill |-> atlas.fill, px |-> atlas.px]
    /\ saves' = saves + 1
    /\ pc' = "for"
    /\ UNCHANGED <<env, items, pos, loop, atlas, logs, run, hist>>

\* line 36
PrintAdded ==
    /\ pc = "print"
    /\ out' = Append(out, <<"Added", name, index>>)
    /\ pc' = "for"
    /\ UNCHANGED <<env, outfile, items, pos, loop, atlas, logs, saves, run, hist>>

\* Fault: the encoder stamps the file with the number of the run.
EncodeStamped(img) ==
    [format |-> "PNG", w |-> img.w, h |-> img.h, mode |-> img.mode,
     fill |-> img.fill, px |-> img.px, stamp |-> run]

\* The PNG file img.save writes.
Encode(img) == [format |-> "PNG", w |-> img.w, h |-> img.h, mode |-> img.mode,
                fill |-> img.fill, px |-> img.px]

\* line 38: the file is written.
SaveOk ==
    /\ pc = "save"
    /\ Writable(TRUE)
    /\ outfile' = Encode(atlas)
    /\ saves' = saves + 1
    /\ pc' = "summary"
    /\ UNCHANGED <<disk, items, pos, loop, atlas, out, logs, run, hist>>

\* line 38: the file cannot be written; the exception ends the script.
SaveFail ==
    /\ pc = "save"
    /\ Writable(FALSE)
    /\ pc' = "crashed"
    /\ UNCHANGED <<disk, outfile, items, pos, loop, atlas, out, logs, saves, run, hist>>

\* line 39
PrintSummary ==
    /\ pc = "summary"
    /\ out' = Append(out, <<"Atlas saved", OUTPUT_NAME, ATLAS_SIZE, ATLAS_SIZE>>)
    /\ pc' = "done"
    /\ UNCHANGED <<env, outfile, items, pos, loop, atlas, logs, saves, run, hist>>

Ended == pc \in {"done", "crashed"}

Next ==
    \/ ForEnd \/ ForAir \/ ForMissing \/ ForFound
    \/ OpenOk \/ OpenFail
    \/ PasteTile \/ PrintAdded
    \/ SaveOk \/ SaveFail
    \/ PrintSummary

Spec == Init /\ [][Next]_vars

----------------------------------------------------------------------------
(* Running the builder again *)

\* The script is started a second time after a run has ended: a new process
\* with fresh memory, on the file system the first run left.
Restart ==
    /\ Ended /\ run < 2
    /\ hist' = Append(hist, [end |-> pc, out |-> out, file |-> outfile])
    /\ run' = run + 1
    /\ pos' = 0 /\ pc' = "for"
    /\ name' = "" /\ index' = -1 /\ texture' = NoImage /\ row' = -1 /\ col' = -1
    /\ atlas' = NewImage("RGBA", ATLAS_SIZE, ATLAS_SIZE, Transparent)
    /\ out' = <<>> /\ looked' = <<>> /\ opened' = <<>> /\ pasted' = <<>>
    /\ saves' = 0
    /\ UNCHANGED <<env, outfile, items>>

NextTwice == Next \/ Restart

SpecTwice == Init /\ [][NextTwice]_vars

----------------------------------------------------------------------------
(* Other tables *)

Reverse(t) == [k \in 1 .. Len(t) |-> t[Len(t) + 1 - k]]

\* The entries at the odd places, then those at the even places.
Unzip(t) == [k \in 1 .. Len(t) |->
                IF 2 * k - 1 <= Len(t) THEN t[2 * k - 1]
                ELSE t[2 * (k - (Len(t) + 1) \div 2)]]

\* Permutations of the shipped table; the reversal inverts the order of every
\* pair of entries.
Orders == {TEXTURE_MAP, Reverse(TEXTURE_MAP), Unzip(TEXTURE_MAP)}

InitOrder ==
    /\ disk \in FreshDisk
    /\ cwd = "unknown"
    /\ outfile = NoFile
    /\ items \in Orders
    /\ run = 1 /\ hist = <<>>
    /\ Start

SpecOrder == InitOrder /\ [][Next]_vars

\* The canvas after the first k entries of table t were processed on the file
\* system d: the loop of lines 24-35 as a fold.
RECURSIVE Compose(_, _, _)
Compose(t, d, k) ==
    IF k = 0 THEN NewImage("RGBA", ATLAS_SIZE, ATLAS_SIZE, Transparent)
    ELSE LET before == Compose(t, d, k - 1)
             n == t[k][1]
             cell == CellOf(t[k][2])
             at == Offset(cell[1], cell[2])
         IN  IF IsAir(n) \/ d[n] # "image" THEN before
             ELSE Paste(before,
                        Resize(Convert(OpenImage(n), "RGBA"), TEXTURE_SIZE, TEXTURE_SIZE),
                        at[1], at[2])

\* The tables {"air": 0, "dirt": i} for every slot i of the grid.
SlotTables == {<< <<"air", 0>>, <<"dirt", i>> >> :
                 i \in 0 .. (textures_per_row * textures_per_row - 1)}

InitAny ==
    /\ disk \in FreshDisk
    /\ cwd = "unknown"
    /\ outfile = NoFile
    /\ items \in SlotTables
    /\ run = 1 /\ hist = <<>>
    /\ Start

SpecAny == InitAny /\ [][Next]_vars

----------------------------------------------------------------------------
(* Vocabulary of the properties *)

Range(q) == {q[k] : k \in DOMAIN q}

tilesPerRow == ATLAS_SIZE \div TEXTURE_SIZE

Tile == 0 .. (TEXTURE_SIZE - 1)

\* The tile the entry named n contributes.
TileOf(n) == Resize(Convert(OpenImage(n), "RGBA"), TEXTURE_SIZE, TEXTURE_SIZE)

\* Pixel (dx, dy) of the atlas cell of slot i.
CellPixel(img, i, dx, dy) ==
    GetPixel(img, (i % tilesPerRow) * TEXTURE_SIZE + dx,
                  (i \div tilesPerRow) * TEXTURE_SIZE + dy)

CellHolds(img, i, tile) ==
    \A dx \in Tile, dy \in Tile : CellPixel(img, i, dx, dy) = GetPixel(tile, dx, dy)

CellTransparent(img, i) ==
    \A dx \in Tile, dy \in Tile : CellPixel(img, i, dx, dy) = Transparent

MissingLine(n) == <<"Missing", n>>

AddedLine(n, i) == <<"Added", n, i>>

SummaryLine == <<"Atlas saved", OUTPUT_NAME, ATLAS_SIZE, ATLAS_SIZE>>

\* The entries the loop has fetched.
Fetched == {items[k] : k \in 1 .. pos}

\* A fatal error has a cause: an undecodable file or an unwritable directory.
FatalCause == (\E n \in DOMAIN disk : disk[n] = "garbage") \/ cwd = "readonly"

\* The script stopped at line 33.
CrashedAtOpen == pc = "crashed" /\ disk[name] = "garbage"

----------------------------------------------------------------------------
(* C1 *)

\* C1: after the build completes, the cell of every entry other than air whose
\* file exists holds exactly that entry's resized tile, at row index div
\* tilesPerRow and column index mod tilesPerRow, and the cell of every entry
\* whose file is missing is fully transparent; the file written holds the same.
C1_CellsHoldTiles ==
    pc = "done" =>
        /\ \A e \in Range(items) :
              e[1] # "air" =>
                 /\ disk[e[1]] \in {"image", "absent"}
                 /\ disk[e[1]] = "image" => CellHolds(atlas, e[2], TileOf(e[1]))
                 /\ disk[e[1]] = "absent" => CellTransparent(atlas, e[2])
        /\ outfile = Encode(atlas)

C1_Witness ==
    /\ pc = "done"
    /\ \E e \in Range(items) : disk[e[1]] = "image" /\ e[2] >= tilesPerRow
    /\ \E e \in Range(items) : e[1] # "air" /\ disk[e[1]] = "absent"

----------------------------------------------------------------------------
(* C2 *)

C2_Inv ==
    /\ \A e \in Fetched :
          (e[1] # "air" /\ disk[e[1]] = "absent") =>
             /\ MissingLine(e[1]) \in Range(out)
             /\ e[1] \notin Range(opened)
             /\ \A p \in Range(pasted) : p.name # e[1]
             /\ CellTransparent(atlas, e[2])
    /\ pc = "crashed" => FatalCause

C2_Step ==
    (looked' # looked /\ disk'[name'] = "absent") =>
        /\ pc' = "for"
        /\ out' = Append(out, MissingLine(name'))
        /\ atlas' = atlas /\ opened' = opened /\ pasted' = pasted

\* C2: a missing file is recoverable: each absent entry other than air prints
\* "Missing: <name>", is neither loaded nor pasted, its cell stays transparent,
\* the loop goes on with the next entry, and the run is stopped only by a file
\* that does not decode or an output that cannot be written.
C2_MissingIsRecoverable ==
    /\ []C2_Inv
    /\ [][C2_Step]_vars

C2_Witness ==
    /\ pc = "done"
    /\ Cardinality(Absent \ {"air"}) = MaxMissing
    /\ Len(pasted) > 0

----------------------------------------------------------------------------
(* C3 *)

\* C3: the reserved name air is never looked up, never loaded, never printed
\* and never pasted, whether air.png exists or not, and in the final atlas its
\* cell (slot 0) is fully transparent.
C3_AirUntouched ==
    /\ "air" \notin Range(looked)
    /\ "air" \notin Range(opened)
    /\ \A l \in Range(out) : l[1] \in {"Missing", "Added"} => l[2] # "air"
    /\ \A p \in Range(pasted) : p.name # "air"
    /\ disk["air"] \in {"absent", "present"}
    /\ pc = "done" => CellTransparent(atlas, 0)

C3_Witness ==
    /\ pc = "done"
    /\ disk["air"] = "present"
    /\ <<"air", 0>> \in Fetched
    /\ Len(pasted) > 0

----------------------------------------------------------------------------
(* C4 *)

\* C4: processing the entries of the shipped table in another order yields the
\* canvas the declared order yields.
C4_OrderIrrelevant ==
    pc = "done" => atlas = Compose(TEXTURE_MAP, disk, Len(TEXTURE_MAP))

C4_Witness ==
    /\ pc = "done"
    /\ items = Reverse(TEXTURE_MAP)
    /\ Len(pasted) >= 2
    /\ pasted[1].name = "ice"
    /\ out[1] = AddedLine("ice", 17)

----------------------------------------------------------------------------
(* C5 *)

\* C5: a second run on the same table, files and tile contents ends as the
\* first did: the same way, with the same lines printed and the same file.
C5_Idempotent ==
    (run = 2 /\ Ended) =>
        /\ pc = hist[1].end
        /\ out = hist[1].out
        /\ outfile = hist[1].file

C5_Witness ==
    /\ run = 2 /\ pc = "done"
    /\ Len(pasted) > 0
    /\ Absent \ {"air"} # {}

----------------------------------------------------------------------------
(* C6 *)

\* Steps the script has left at most.
Rank ==
    CASE pc = "open" -> 6
      [] pc = "paste" -> 5
      [] pc = "print" -> 4
      [] pc = "for" -> 3
      [] pc = "save" -> 2
      [] pc = "summary" -> 1
      [] OTHER -> 0

Measure == 4 * (Len(items) - pos) + Rank

C6_Inv ==
    /\ saves <= 1
    /\ saves = 1 => /\ pos = Len(items)
                    /\ pc \in {"summary", "done"}
                    /\ outfile = Encode(atlas)
    /\ saves = 0 => outfile = NoFile
    /\ SummaryLine \in Range(out) => saves = 1
    /\ pc = "done" => saves = 1 /\ out[Len(out)] = SummaryLine
    /\ pc = "crashed" => FatalCause
    /\ Ended \/ ENABLED Next

C6_Step ==
    /\ saves >= 1 => atlas' = atlas /\ pasted' = pasted /\ saves' = saves
    /\ Measure' < Measure

\* C6: the output file is written exactly once and only after every entry was
\* processed; nothing is pasted after the write; the summary follows the write;
\* every step brings the end of the run nearer and a run that has not ended
\* can take a step; a run ends by a crash only for a fatal cause.
C6_WrittenOnceAtEnd ==
    /\ []C6_Inv
    /\ [][C6_Step]_vars

C6_Witness ==
    /\ pc = "done" /\ saves = 1
    /\ Len(pasted) > 0
    /\ Absent \ {"air"} # {}

----------------------------------------------------------------------------
(* C7 *)

\* The line an entry whose processing has finished has printed.
LineOf(e) ==
    IF e[1] = "air" THEN <<>>
    ELSE IF disk[e[1]] = "absent" THEN <<MissingLine(e[1])>>
    ELSE <<AddedLine(e[1], e[2])>>

RECURSIVE LinesOf(_)
LinesOf(k) == IF k = 0 THEN <<>> ELSE LinesOf(k - 1) \o LineOf(items[k])

\* The entry fetched last has not printed its line yet.
InProgress == pc \in {"open", "paste", "print"} \/ CrashedAtOpen

\* C7: every entry other than air prints exactly one line, "Missing" when its
\* file is absent and "Added" when it is present and pasted; the lines come in
\* the table's order, an "Added" line only after the entry's paste, and the
\* summary line is the last line.
C7_Diagnostics ==
    /\ out = LinesOf(IF InProgress THEN pos - 1 ELSE pos)
             \o (IF pc = "done" THEN <<SummaryLine>> ELSE <<>>)
    /\ \A l \in Range(out) :
          l[1] = "Added" => \E p \in Range(pasted) : p.name = l[2]
    /\ \A l \in Range(out) :
          l[1] = "Missing" => \A p \in Range(pasted) : p.name # l[2]

C7_Witness ==
    /\ pc = "done"
    /\ \E l \in Range(out) : l[1] = "Missing"
    /\ \E l \in Range(out) : l[1] = "Added"
    /\ out[Len(out)] = SummaryLine

----------------------------------------------------------------------------
(* C8 *)

Grid == 0 .. (tilesPerRow - 1)

Slots == 0 .. (tilesPerRow * tilesPerRow - 1)

\* C8: the cell computed for a slot index lies in the grid and gives the index
\* back as row * tilesPerRow + col; no other slot has that cell; slot 0 has
\* cell (0, 0) and the last slot the bottom-right cell.
C8_CellBijection ==
    pc = "print" =>
        /\ index \in Slots
        /\ row \in Grid /\ col \in Grid
        /\ row * tilesPerRow + col = index
        /\ \A j \in Slots : CellOf(j) = <<row, col>> => j = index
        /\ index = 0 => row = 0 /\ col = 0
        /\ index = tilesPerRow * tilesPerRow - 1 =>
              row = tilesPerRow - 1 /\ col = tilesPerRow - 1
        /\ pasted[Len(pasted)].x = col * TEXTURE_SIZE
        /\ pasted[Len(pasted)].y = row * TEXTURE_SIZE

C8_Witness ==
    /\ pc = "print"
    /\ index = tilesPerRow * tilesPerRow - 1
    /\ row = tilesPerRow - 1 /\ col = tilesPerRow - 1

----------------------------------------------------------------------------
(* C9 *)

Inside(p) ==
    /\ 0 <= p.x /\ p.x + p.w <= ATLAS_SIZE
    /\ 0 <= p.y /\ p.y + p.h <= ATLAS_SIZE

Disjoint(p, q) ==
    \/ p.x + p.w <= q.x \/ q.x + q.w <= p.x
    \/ p.y + p.h <= q.y \/ q.y + q.h <= p.y

\* C9: the shipped table has 18 entries with pairwise distinct indices, all
\* in [0, 256); 256 is a multiple of 16; every region pasted lies inside the
\* canvas, no two pastes overlap and no pixel is written twice.
C9_TableInvariant ==
    /\ Len(TEXTURE_MAP) = 18
    /\ \A j, k \in DOMAIN TEXTURE_MAP :
          j # k => TEXTURE_MAP[j][2] # TEXTURE_MAP[k][2]
    /\ \A k \in DOMAIN TEXTURE_MAP :
          0 <= TEXTURE_MAP[k][2] /\ TEXTURE_MAP[k][2] < 256
    /\ ATLAS_SIZE = 256 /\ TEXTURE_SIZE = 16 /\ ATLAS_SIZE % TEXTURE_SIZE = 0
    /\ (ATLAS_SIZE \div TEXTURE_SIZE) * (ATLAS_SIZE \div TEXTURE_SIZE) = 256
    /\ \A k \in DOMAIN pasted : Inside(pasted[k])
    /\ \A j, k \in DOMAIN pasted : j # k => Disjoint(pasted[j], pasted[k])
    /\ Cardinality(DOMAIN atlas.px) = Len(pasted) * TEXTURE_SIZE * TEXTURE_SIZE
    /\ \A p \in DOMAIN atlas.px : p \in 0 .. (ATLAS_SIZE * ATLAS_SIZE - 1)

C9_Witness ==
    /\ pc = "done"
    /\ Len(pasted) = Len(TEXTURE_MAP) - 1

----------------------------------------------------------------------------
(* C10 *)

C10_Inv ==
    /\ \A n \in DOMAIN disk : disk[n] = "garbage" => pc = "crashed" /\ name = n
    /\ CrashedAtOpen =>
          /\ \A l \in Range(out) : l[2] # name
          /\ SummaryLine \notin Range(out)
          /\ \A p \in Range(pasted) : p.name # name
          /\ outfile = NoFile /\ saves = 0
          /\ opened[Len(opened)] = name
          /\ Cardinality({k \in DOMAIN opened : opened[k] = name}) = 1
          /\ Len(looked) = Len(out) + 1
          /\ ~ENABLED Next

\* C10: a file that exists and does not decode stops the run at its entry: no
\* line is printed for the entry, no later entry is processed, nothing is
\* written, no summary is printed, the file is opened once, and the script
\* takes no further step.
C10_FatalStops ==
    /\ []C10_Inv
    /\ [][pc # "crashed"]_vars

C10_Witness ==
    /\ CrashedAtOpen
    /\ pos < Len(items)
    /\ Len(pasted) > 0
    /\ \E l \in Range(out) : l[1] = "Missing"

====
